---- MODULE Spec2Model ----
(***************************************************************************)
(* The monthly work-schedule generator: quickstart.go (the program with    *)
(* createSpreadsheet / getSpreadsheet / copySpreadsheet / deleteBlankSheet *)
(* / updateCellsYearMonth) and the earlier inline program (part_000, the   *)
(* same workflow written out in main).                                     *)
(*                                                                         *)
(* A program is a sequential process; its position is pc[p].  A step is    *)
(* one file operation, one prompt or one remote call.  What the world      *)
(* answers is fixed by the record env chosen in Init: the template's       *)
(* sheets, the account's locale, the token file found on disk, which       *)
(* fallible operation (if any) fails, and the wall clock.  Each program    *)
(* has its own copy of the world (token file, destination spreadsheet).    *)
(*                                                                         *)
(* Strings are sequences of characters.  The four characters of the        *)
(* suffix the service appends to a copied sheet's title (no-ko-pi-cho-on,  *)
(* "copy of") are written "no", "ko", "pi", "-".                           *)
(***************************************************************************)
EXTENDS Integers, Sequences, FiniteSets, TLC

VARIABLES
    env,                    \* the world's script (never changes)
    active,                 \* the programs that run
    pc,                     \* pc[p]: the program's position
    nops,                   \* nops[p]: fallible operations attempted so far
    tokenFile,              \* tokenFile[p]: content of token.json
    prompted,               \* prompted[p]: the authorization URL was printed
    tok,                    \* tok[p]: the token getClient holds
    client,                 \* client[p]: the token the http client was built with
    newSheet,               \* newSheet[p]: response of Spreadsheets.Create
    sourceSpreadsheet,      \* sourceSpreadsheet[p]: response of Get(source)
    idx,                    \* idx[p]: loop position (copy loop, then write loop)
    resp,                   \* resp[p]: response of the last CopyTo
    destinationSpreadsheet, \* destinationSpreadsheet[p]: response of Get(destination)
    now,                    \* now[p]: the year/month sampled by time.Now()
    dest,                   \* dest[p]: the destination spreadsheet at the service
    log                     \* log[p]: the remote calls issued, with their outcome

vars == <<env, active, pc, nops, tokenFile, prompted, tok, client, newSheet,
          sourceSpreadsheet, idx, resp, destinationSpreadsheet, now, dest, log>>

auth == <<tokenFile, prompted, tok, client>>

locals == <<newSheet, sourceSpreadsheet, idx, resp, destinationSpreadsheet, now>>

-----------------------------------------------------------------------------
(* Bounds *)

MaxSheets == 2

-----------------------------------------------------------------------------
(* Program text *)

Progs == {"quickstart", "part_000"}

sourceSpreadsheetId == "source"

Suffix == <<"no", "ko", "pi", "-">>

A1A3 == <<"!A1:A3">>

HasSuffix(s, suffix) ==
    /\ Len(s) >= Len(suffix)
    /\ SubSeq(s, Len(s) - Len(suffix) + 1, Len(s)) = suffix

\* (mutant) every trailing occurrence is removed
TrimSuffixAll(s, suffix) ==
    LET once == IF HasSuffix(s, suffix) THEN SubSeq(s, 1, Len(s) - Len(suffix)) ELSE s
    IN  IF HasSuffix(once, suffix) THEN SubSeq(once, 1, Len(once) - Len(suffix)) ELSE once

\* (mutant) strings.TrimPrefix in place of strings.TrimSuffix
TrimPrefix(s, suffix) ==
    IF Len(s) >= Len(suffix) /\ SubSeq(s, 1, Len(suffix)) = suffix
    THEN SubSeq(s, Len(suffix) + 1, Len(s)) ELSE s

TrimSuffix(s, suffix) ==
    IF HasSuffix(s, suffix) THEN SubSeq(s, 1, Len(s) - Len(suffix)) ELSE s

-----------------------------------------------------------------------------
(* The world *)

DestId == "created"

BlankTitle == <<"S">>

BlankSheet == [id |-> 0, title |-> BlankTitle, cells |-> <<"", "", "">>]

SrcTitles == {<<"A">>, <<"A">> \o Suffix, BlankTitle}

TemplateCells == <<"t1", "t2", "t3">>

\* The template's sheets: distinct titles, the sheet ids 0, 1, ...
Sources ==
    { s \in UNION { [1..n -> SrcTitles] : n \in 0..MaxSheets } :
        \A i, j \in DOMAIN s : i # j => s[i] # s[j] }

SrcSheets(s) == [i \in DOMAIN s |-> [id |-> i - 1, title |-> s[i], cells |-> TemplateCells]]

\* The fallible operations of one run, at most: ReadFile, ConfigFromJSON, Scan,
\* Exchange, OpenFile, NewService, Create, Get, (CopyTo, BatchUpdate) per sheet,
\* BatchUpdate, Get, Update per sheet.
MaxOps == 10 + 3 * MaxSheets

Times == {[year |-> 2024, month |-> 1], [year |-> 2024, month |-> 12]}

NextMonth(t) ==
    IF t.month = 12 THEN [year |-> t.year + 1, month |-> 1]
    ELSE [year |-> t.year, month |-> t.month + 1]

Envs ==
    { e \in [src : {SrcSheets(s) : s \in Sources},
             locale : {"ja", "en"},
             tokenFile0 : {"missing", "corrupt", "stored"},
             encodeOk : BOOLEAN,
             failAt : 0..MaxOps,
             now0 : Times,
             tick : BOOLEAN] :
        e.tokenFile0 = "stored" => e.encodeOk }

Props(sheets) == [i \in DOMAIN sheets |-> [SheetId |-> sheets[i].id, Title |-> sheets[i].title]]

Titles(sheets) == {sheets[i].title : i \in DOMAIN sheets}

Ids(sheets) == {sheets[i].id : i \in DOMAIN sheets}

Max(S) == CHOOSE x \in S : \A y \in S : y <= x


\* The service names a copy after the account's locale and never gives the
\* destination two sheets of one title.
CopyName(title, locale, sheets) ==
    LET base == IF locale = "ja" THEN title \o Suffix ELSE <<"C">> \o title
    IN  IF base \in Titles(sheets) THEN base \o <<"2">> ELSE base

SvcCopyOk(srcSheets, sheetId) == sheetId \in Ids(srcSheets)

SvcCopy(sheets, srcSheets, sheetId, locale) ==
    LET s == CHOOSE x \in {srcSheets[i] : i \in DOMAIN srcSheets} : x.id = sheetId
    IN  Append(sheets, [id |-> Max(Ids(sheets) \cup {0}) + 1,
                        title |-> CopyName(s.title, locale, sheets),
                        cells |-> s.cells])

\* A title is changed only to one no other sheet of the spreadsheet carries.
SvcRenameOk(sheets, sheetId, title) ==
    /\ sheetId \in Ids(sheets)
    /\ title # <<>>
    /\ \A i \in DOMAIN sheets : sheets[i].id # sheetId => sheets[i].title # title

SvcRename(sheets, sheetId, title, fields) ==
    [i \in DOMAIN sheets |->
        IF sheets[i].id = sheetId /\ fields = "title"
        THEN [sheets[i] EXCEPT !.title = title] ELSE sheets[i]]

\* The last sheet of a spreadsheet cannot be deleted.
SvcDeleteOk(sheets, sheetId) == sheetId \in Ids(sheets) /\ Len(sheets) > 1

SvcDelete(sheets, sheetId) == SelectSeq(sheets, LAMBDA s : s.id # sheetId)

RangeTitle(range) == SubSeq(range, 1, Len(range) - Len(A1A3))

SvcUpdateOk(sheets, range) ==
    HasSuffix(range, A1A3) /\ RangeTitle(range) \in Titles(sheets)

\* ROWS of a three-row range: a row without a value leaves its cell alone.
SvcUpdate(sheets, range, values) ==
    [i \in DOMAIN sheets |->
        IF sheets[i].title = RangeTitle(range)
        THEN [sheets[i] EXCEPT !.cells =
                [k \in 1..3 |-> IF k <= Len(values) /\ Len(values[k]) > 0
                                THEN values[k][1] ELSE @[k]]]
        ELSE sheets[i]]

-----------------------------------------------------------------------------
(* Requests and the log *)

NoSheets == <<>>

Req(op) == [op |-> op, ss |-> "", sheet |-> -1, dst |-> "", title |-> <<>>,
            fields |-> "", range |-> <<>>, values |-> <<>>]

NoResp == [SheetId |-> -1, Title |-> <<>>, Sheets |-> NoSheets]

Updates(l) == SelectSeq(l, LAMBDA e : e.req.op = "Update")

\* time.Now(): the month may turn after the first value write.
Clock(p) ==
    IF env.tick /\ Len(Updates(log[p])) >= 1 THEN NextMonth(env.now0) ELSE env.now0

Fails(p) == nops[p] + 1 = env.failAt

Attempt(p) == nops' = [nops EXCEPT ![p] = @ + 1]

Issue(p, req, ok, rsp) ==
    log' = [log EXCEPT ![p] = Append(@, [req |-> req, ok |-> ok, resp |-> rsp])]

\* (mutant) the error is logged and the step is tried again
FatalfRetry(at) == at

\* log.Fatalf / log.Fatal: the process exits.
Fatalf(at) == "aborted"

Goto(p, to) == pc' = [pc EXCEPT ![p] = to]


-----------------------------------------------------------------------------
(* Start of main, and getClient *)

InitWith(progs) ==
    /\ env \in Envs
    /\ active = progs
    /\ pc = [p \in Progs |-> "readFile"]
    /\ nops = [p \in Progs |-> 0]
    /\ tokenFile = [p \in Progs |-> env.tokenFile0]
    /\ prompted = [p \in Progs |-> FALSE]
    /\ tok = [p \in Progs |-> "none"]
    /\ client = [p \in Progs |-> "none"]
    /\ newSheet = [p \in Progs |-> [SpreadsheetId |-> "", Sheets |-> NoSheets]]
    /\ sourceSpreadsheet = [p \in Progs |-> NoSheets]
    /\ idx = [p \in Progs |-> 0]
    /\ resp = [p \in Progs |-> NoResp]
    /\ destinationSpreadsheet = [p \in Progs |-> NoSheets]
    /\ now = [p \in Progs |-> [year |-> 0, month |-> 0]]
    /\ dest = [p \in Progs |-> NoSheets]
    /\ log = [p \in Progs |-> <<>>]

\* A local step that can fail: on failure the process exits.
LocalStep(p, at, to) ==
    /\ pc[p] = at
    /\ Attempt(p)
    /\ Goto(p, IF Fails(p) THEN Fatalf(at) ELSE to)
    /\ UNCHANGED <<env, active, auth, locals, dest, log>>

\* os.ReadFile("credentials.json")
ReadFile(p) == LocalStep(p, "readFile", "configFromJSON")

\* google.ConfigFromJSON
ConfigFromJSON(p) == LocalStep(p, "configFromJSON", "tokenFromFile")

\* tokenFromFile's error: the file does not open, or does not decode.
tokenFromFileErr(content) == content \in {"missing", "corrupt"}

\* getClient up to the prompt of getTokenFromWeb, or to its return.
TokenFromFile(p) ==
    /\ pc[p] = "tokenFromFile"
    /\ IF tokenFromFileErr(tokenFile[p])
       THEN /\ prompted' = [prompted EXCEPT ![p] = TRUE]
            /\ Goto(p, "scan")
            /\ UNCHANGED <<tok, client>>
       ELSE /\ tok' = [tok EXCEPT ![p] = tokenFile[p]]
            /\ client' = [client EXCEPT ![p] = tokenFile[p]]
            /\ Goto(p, "newService")
            /\ UNCHANGED prompted
    /\ UNCHANGED <<env, active, nops, tokenFile, locals, dest, log>>

\* fmt.Scan(&authCode)
Scan(p) == LocalStep(p, "scan", "exchange")

\* config.Exchange
Exchange(p) ==
    /\ pc[p] = "exchange"
    /\ Attempt(p)
    /\ Issue(p, Req("Exchange"), ~Fails(p), NoResp)
    /\ IF Fails(p)
       THEN Goto(p, Fatalf("exchange")) /\ UNCHANGED tok
       ELSE Goto(p, "saveToken") /\ tok' = [tok EXCEPT ![p] = "web"]
    /\ UNCHANGED <<env, active, tokenFile, prompted, client, locals, dest>>

\* What token.json holds after json.NewEncoder(f).Encode(token) on the
\* truncated file; Encode's error is dropped.
Encoded(token, encodeOk) == IF encodeOk THEN token ELSE "corrupt"

\* saveToken, then getClient's return
SaveToken(p) ==
    /\ pc[p] = "saveToken"
    /\ Attempt(p)
    /\ IF Fails(p)
       THEN Goto(p, Fatalf("saveToken")) /\ UNCHANGED <<tokenFile, client>>
       ELSE /\ tokenFile' = [tokenFile EXCEPT ![p] = Encoded(tok[p], env.encodeOk)]
            /\ client' = [client EXCEPT ![p] = tok[p]]
            /\ Goto(p, "newService")
    /\ UNCHANGED <<env, active, prompted, tok, locals, dest, log>>

\* sheets.NewService
NewService(p) == LocalStep(p, "newService", "create")


-----------------------------------------------------------------------------
(* The spreadsheet calls *)

SpreadsheetTitle == <<"kinmuhyo sakusei test">>

\* A remote call: issued and logged; refused by the service or failed in transit,
\* the process exits and the service's state is as before.
Call(p, at, req, accepted, rsp, to, sheets) ==
    /\ pc[p] = at
    /\ Attempt(p)
    /\ LET ok == accepted /\ ~Fails(p) IN
        /\ Issue(p, req, ok, IF ok THEN rsp ELSE NoResp)
        /\ Goto(p, IF ok THEN to ELSE Fatalf(at))
        /\ dest' = [dest EXCEPT ![p] = IF ok THEN sheets ELSE @]
    /\ UNCHANGED <<env, active, auth>>

Returned(p) == log'[p][Len(log'[p])].ok

\* range over a slice: the body while elements remain, then what follows the loop
Range(i, sheets, body, exit) == IF i <= Len(sheets) THEN body ELSE exit

destinationSpreadsheetId(p) == newSheet[p].SpreadsheetId

\* createSpreadsheet / Spreadsheets.Create
CreateSpreadsheet(p) ==
    /\ Call(p, "create", [Req("Create") EXCEPT !.title = SpreadsheetTitle], TRUE,
            [NoResp EXCEPT !.Sheets = Props(<<BlankSheet>>)], "getSource", <<BlankSheet>>)
    /\ newSheet' = [newSheet EXCEPT ![p] =
            IF Returned(p) THEN [SpreadsheetId |-> DestId, Sheets |-> Props(<<BlankSheet>>)]
            ELSE @]
    /\ UNCHANGED <<sourceSpreadsheet, idx, resp, destinationSpreadsheet, now>>

\* getSpreadsheet(srv, sourceSpreadsheetId) / Spreadsheets.Get of the source
GetSource(p) ==
    /\ Call(p, "getSource", [Req("Get") EXCEPT !.ss = sourceSpreadsheetId], TRUE,
            [NoResp EXCEPT !.Sheets = Props(env.src)],
            Range(1, env.src, "copyTo", "deleteBlank"), dest[p])
    /\ sourceSpreadsheet' = [sourceSpreadsheet EXCEPT ![p] =
            IF Returned(p) THEN Props(env.src) ELSE @]
    /\ idx' = [idx EXCEPT ![p] = IF Returned(p) THEN 1 ELSE @]
    /\ UNCHANGED <<newSheet, resp, destinationSpreadsheet, now>>

\* copySpreadsheet's loop body, first half: Sheets.CopyTo
CopyTo(p) ==
    LET sheet == sourceSpreadsheet[p][idx[p]]
        copied == SvcCopy(dest[p], env.src, sheet.SheetId, env.locale)
        rsp == [NoResp EXCEPT !.SheetId = copied[Len(copied)].id,
                              !.Title = copied[Len(copied)].title]
    IN  /\ pc[p] = "copyTo"
        /\ Call(p, "copyTo",
                [Req("CopyTo") EXCEPT !.ss = sourceSpreadsheetId,
                                      !.sheet = sheet.SheetId,
                                      !.dst = destinationSpreadsheetId(p)],
                SvcCopyOk(env.src, sheet.SheetId), rsp, "updateSheetName", copied)
        /\ resp' = [resp EXCEPT ![p] = IF Returned(p) THEN rsp ELSE @]
        /\ UNCHANGED <<newSheet, sourceSpreadsheet, idx, destinationSpreadsheet, now>>

\* copySpreadsheet's loop body, second half: the title without the suffix
UpdateSheetName(p) ==
    LET newSheetTitle == TrimSuffix(resp[p].Title, Suffix)
        request == [Req("UpdateSheetProperties") EXCEPT
                        !.ss = destinationSpreadsheetId(p),
                        !.sheet = resp[p].SheetId,
                        !.title = newSheetTitle,
                        !.fields = "title"]
    IN  /\ Call(p, "updateSheetName", request,
                SvcRenameOk(dest[p], request.sheet, request.title), NoResp,
                Range(idx[p] + 1, sourceSpreadsheet[p], "copyTo", "deleteBlank"),
                SvcRename(dest[p], request.sheet, request.title, request.fields))
        /\ idx' = [idx EXCEPT ![p] = IF Returned(p) THEN @ + 1 ELSE @]
        /\ UNCHANGED <<newSheet, sourceSpreadsheet, resp, destinationSpreadsheet, now>>

\* (mutant) the sheet's position taken for its id
blankSheetIndex(spreadsheet) == Len(spreadsheet.Sheets)

\* newSheet.Sheets[0].Properties.SheetId
blankSheetId(spreadsheet) == spreadsheet.Sheets[1].SheetId

DeleteSheet(p) ==
    Call(p, "deleteBlank",
         [Req("DeleteSheet") EXCEPT !.ss = destinationSpreadsheetId(p),
                                    !.sheet = blankSheetId(newSheet[p])],
         SvcDeleteOk(dest[p], blankSheetId(newSheet[p])), NoResp, "getDestination",
         SvcDelete(dest[p], blankSheetId(newSheet[p])))

\* Nothing is called: the program moves on.
Skip(p, at, to) ==
    /\ pc[p] = at
    /\ Goto(p, to)
    /\ UNCHANGED <<env, active, nops, auth, dest, log>>

\* An index out of range: the process dies.
Panic(p, at) == Skip(p, at, "panic")

\* (mutant) >= for >
HasSheetsOffByOne(spreadsheet) == Len(spreadsheet) >= 0

\* (mutant) the guard inverted
HasNoSheets(spreadsheet) == Len(spreadsheet) = 0

\* quickstart.go: main's guard, then deleteBlankSheet
HasSheets(spreadsheet) == Len(spreadsheet) > 0

DeleteBlankSheet(p) ==
    /\ p = "quickstart"
    /\ IF HasSheets(sourceSpreadsheet[p])
       THEN IF Len(newSheet[p].Sheets) = 0
            THEN Panic(p, "deleteBlank")
            ELSE DeleteSheet(p)
       ELSE Skip(p, "deleteBlank", "getDestination")
    /\ UNCHANGED locals

\* (mutant) >= for >
InlineHasSheetsOffByOne(spreadsheet) == Len(spreadsheet) >= 0

\* part_000: blankSheetId is read before the guard
InlineHasSheets(spreadsheet) == Len(spreadsheet) > 0

InlineDeleteBlankSheet(p) ==
    /\ p = "part_000"
    /\ IF Len(newSheet[p].Sheets) = 0
       THEN Panic(p, "deleteBlank")
       ELSE IF InlineHasSheets(sourceSpreadsheet[p])
            THEN DeleteSheet(p)
            ELSE Skip(p, "deleteBlank", "getDestination")
    /\ UNCHANGED locals

\* getSpreadsheet(srv, destinationSpreadsheetId) / Spreadsheets.Get of the destination
GetDestination(p) ==
    /\ Call(p, "getDestination",
            [Req("Get") EXCEPT !.ss = destinationSpreadsheetId(p)], TRUE,
            [NoResp EXCEPT !.Sheets = Props(dest[p])], "now", dest[p])
    /\ destinationSpreadsheet' = [destinationSpreadsheet EXCEPT ![p] =
            IF Returned(p) THEN Props(dest[p]) ELSE @]
    /\ UNCHANGED <<newSheet, sourceSpreadsheet, idx, resp, now>>

\* now.Year(), int(now.Month())
YearMonth(t) == [year |-> t.year, month |-> t.month]

\* time.Now() at the head of updateCellsYearMonth
Now(p) ==
    /\ Skip(p, "now", Range(1, destinationSpreadsheet[p], "updateValues", "done"))
    /\ now' = [now EXCEPT ![p] = YearMonth(Clock(p))]
    /\ idx' = [idx EXCEPT ![p] = 1]
    /\ UNCHANGED <<newSheet, sourceSpreadsheet, resp, destinationSpreadsheet>>

\* (mutant) only the first sheet is written
FirstSheet(spreadsheet) == IF Len(spreadsheet) = 0 THEN spreadsheet ELSE <<spreadsheet[1]>>

\* The sheets the write loop ranges over
WriteSheets(spreadsheet) == spreadsheet

\* (mutant) time.Now() inside the loop
WriteTimeFresh(p) == [year |-> Clock(p).year, month |-> Clock(p).month]

\* The time a write carries
WriteTime(p) == now[p]

values(year, month) == <<<<year>>, <<>>, <<month>>>>

\* updateCellsYearMonth's loop body: Values.Update
UpdateValues(p) ==
    LET sheets == WriteSheets(destinationSpreadsheet[p])
        sheetName == sheets[idx[p]].Title
        request == [Req("Update") EXCEPT
                        !.ss = destinationSpreadsheetId(p),
                        !.range = sheetName \o A1A3,
                        !.values = values(WriteTime(p).year, WriteTime(p).month),
                        !.fields = "RAW"]
    IN  /\ pc[p] = "updateValues"
        /\ Call(p, "updateValues", request, SvcUpdateOk(dest[p], request.range), NoResp,
                Range(idx[p] + 1, sheets, "updateValues", "done"),
                SvcUpdate(dest[p], request.range, request.values))
        /\ idx' = [idx EXCEPT ![p] = IF Returned(p) THEN @ + 1 ELSE @]
        /\ UNCHANGED <<newSheet, sourceSpreadsheet, resp, destinationSpreadsheet, now>>

-----------------------------------------------------------------------------
(* Specifications *)

Terminal == {"done", "aborted", "panic"}

\* The runs share nothing, so the order of their steps changes neither: when
\* both programs run, part_000 starts once quickstart has ended.
Turn(p) == p = "quickstart" \/ "quickstart" \notin active \/ pc["quickstart"] \in Terminal

Next ==
    \/ \E p \in active : Turn(p) /\ ReadFile(p)
    \/ \E p \in active : Turn(p) /\ ConfigFromJSON(p)
    \/ \E p \in active : Turn(p) /\ TokenFromFile(p)
    \/ \E p \in active : Turn(p) /\ Scan(p)
    \/ \E p \in active : Turn(p) /\ Exchange(p)
    \/ \E p \in active : Turn(p) /\ SaveToken(p)
    \/ \E p \in active : Turn(p) /\ NewService(p)
    \/ \E p \in active : Turn(p) /\ CreateSpreadsheet(p)
    \/ \E p \in active : Turn(p) /\ GetSource(p)
    \/ \E p \in active : Turn(p) /\ CopyTo(p)
    \/ \E p \in active : Turn(p) /\ UpdateSheetName(p)
    \/ \E p \in active : Turn(p) /\ DeleteBlankSheet(p)
    \/ \E p \in active : Turn(p) /\ InlineDeleteBlankSheet(p)
    \/ \E p \in active : Turn(p) /\ GetDestination(p)
    \/ \E p \in active : Turn(p) /\ Now(p)
    \/ \E p \in active : Turn(p) /\ UpdateValues(p)

\* One program runs.
Init == \E p \in Progs : InitWith({p})

Spec == Init /\ [][Next]_vars

\* Both programs run, each in its own copy of one world.
InitBoth == InitWith(Progs)

SpecBoth == InitBoth /\ [][Next]_vars


-----------------------------------------------------------------------------
(* What the claims are stated with *)

NumSheets == Len(env.src)

WebFlow == env.tokenFile0 # "stored"

Kinds(l) == [i \in 1..Len(l) |-> l[i].req.op]

Calls(l, op) == {i \in 1..Len(l) : l[i].req.op = op}

\* The calls of kind op that returned successfully before call k
OkBefore(l, op, k) == {i \in 1..(k - 1) : l[i].req.op = op /\ l[i].ok}

EndsWithSuffix(t) ==
    /\ Len(t) >= 4
    /\ t[Len(t) - 3] = "no" /\ t[Len(t) - 2] = "ko"
    /\ t[Len(t) - 1] = "pi" /\ t[Len(t)] = "-"

SrcTitleOf(sheetId) ==
    LET i == CHOOSE j \in DOMAIN env.src : env.src[j].id = sheetId IN env.src[i].title

\* The order of the remote calls of a run with as many value writes as it can have
ExpectedKinds ==
    (IF WebFlow THEN <<"Exchange">> ELSE <<>>)
    \o <<"Create", "Get">>
    \o [i \in 1..(2 * NumSheets) |-> IF i % 2 = 1 THEN "CopyTo" ELSE "UpdateSheetProperties"]
    \o (IF NumSheets > 0 THEN <<"DeleteSheet">> ELSE <<>>)
    \o <<"Get">>
    \o [i \in 1..(NumSheets + 1) |-> "Update"]

-----------------------------------------------------------------------------
(* C1 *)

\* C1: the remote calls of a run are issued in the fixed order token exchange,
\* create, get source, then per source sheet (in source order) its copy
\* immediately followed by the rename of that copy, then the blank-sheet delete,
\* then get destination, then the value writes; and a call is issued only when
\* every call before it has returned successfully.
C1_CallOrder ==
    \A p \in active :
        LET l == log[p] IN
        /\ Len(l) <= Len(ExpectedKinds)
        /\ Kinds(l) = SubSeq(ExpectedKinds, 1, Len(l))
        /\ \A k \in 1..(Len(l) - 1) : l[k].ok
        /\ \A k \in Calls(l, "CopyTo") :
              l[k].req.sheet = env.src[Cardinality(OkBefore(l, "CopyTo", k)) + 1].id
        /\ \A k \in Calls(l, "UpdateSheetProperties") :
              l[k].req.sheet = l[k - 1].resp.SheetId
        /\ \A k \in Calls(l, "Get") :
              l[k].req.ss = IF OkBefore(l, "Get", k) = {} THEN sourceSpreadsheetId ELSE DestId

C1_Witness ==
    \E p \in active :
        /\ pc[p] = "done"
        /\ NumSheets = 2
        /\ WebFlow
        /\ Len(log[p]) = 11
        /\ Kinds(log[p]) = SubSeq(ExpectedKinds, 1, 11)

-----------------------------------------------------------------------------
(* C2 *)

\* C2: the first failure ends the run: a failed call is the last call of the
\* log (nothing is issued after it, it is not issued again, nothing is undone),
\* the process is then aborted, and after the failing operation no further
\* fallible operation is attempted.
C2_StopOnFirstError ==
    \A p \in active :
        LET l == log[p] IN
        /\ \A k \in 1..(Len(l) - 1) : l[k].ok
        /\ (Len(l) > 0 /\ ~l[Len(l)].ok) => pc[p] = "aborted"
        /\ (env.failAt > 0 /\ nops[p] >= env.failAt) =>
              (pc[p] = "aborted" /\ nops[p] = env.failAt)
        /\ pc[p] = "aborted" => nops[p] > 0

\* a copy failed: the run is over and the spreadsheet it created, with the
\* copy made before, is still there
C2_Witness ==
    \E p \in active :
        /\ pc[p] = "aborted"
        /\ Len(log[p]) > 0
        /\ log[p][Len(log[p])].req.op = "CopyTo"
        /\ ~log[p][Len(log[p])].ok
        /\ Len(dest[p]) = 2

-----------------------------------------------------------------------------
(* C3 *)

\* C3 as stated: every run that completes without error has deleted the
\* default blank sheet of the destination, after all copies and renames.
C3_Original ==
    \A p \in active :
        pc[p] = "done" =>
            /\ BlankSheet.id \notin Ids(dest[p])
            /\ \E k \in Calls(log[p], "DeleteSheet") :
                  /\ Cardinality(OkBefore(log[p], "CopyTo", k)) = NumSheets
                  /\ Cardinality(OkBefore(log[p], "UpdateSheetProperties", k)) = NumSheets

\* C3 (amended): every run that completes without error on a source of at
\* least one sheet has deleted the default blank sheet; the delete names the
\* blank sheet's id and is issued only after all source sheets have been
\* copied and renamed.  On a source without sheets no delete is issued and
\* the blank sheet stays.
C3_BlankSheetDeleted ==
    \A p \in active :
        /\ \A k \in Calls(log[p], "DeleteSheet") :
              /\ log[p][k].req.sheet = BlankSheet.id
              /\ NumSheets >= 1
              /\ Cardinality(OkBefore(log[p], "CopyTo", k)) = NumSheets
              /\ Cardinality(OkBefore(log[p], "UpdateSheetProperties", k)) = NumSheets
        /\ (pc[p] = "done" /\ NumSheets >= 1) =>
              /\ BlankSheet.id \notin Ids(dest[p])
              /\ Calls(log[p], "DeleteSheet") # {}
        /\ (pc[p] = "done" /\ NumSheets = 0) =>
              /\ Calls(log[p], "DeleteSheet") = {}
              /\ BlankSheet.id \in Ids(dest[p])

C3_Witness ==
    \E p \in active :
        /\ pc[p] = "done"
        /\ NumSheets = 2
        /\ BlankSheet.id \notin Ids(dest[p])
        /\ Len(dest[p]) = 2

-----------------------------------------------------------------------------
(* C4 *)

\* C4 as stated: on a completed run the year/month write goes to the first
\* sheet of the destination (year in A1, month in A3) and to no other sheet.
C4_Original ==
    \A p \in active :
        pc[p] = "done" =>
            /\ dest[p][1].cells[1] = env.now0.year
            /\ dest[p][1].cells[3] = env.now0.month
            /\ \A k \in Calls(log[p], "Update") :
                  RangeTitle(log[p][k].req.range) = dest[p][1].title

\* C4 (amended): on a completed run every sheet of the destination receives
\* one value write, in sheet order: the year is in A1 and the month in A3 of
\* each sheet.
C4_EverySheetWritten ==
    \A p \in active :
        pc[p] = "done" =>
            LET w == Updates(log[p]) IN
            /\ Len(w) = Len(dest[p])
            /\ \A i \in 1..Len(w) :
                  /\ w[i].req.range = dest[p][i].title \o <<"!A1:A3">>
                  /\ dest[p][i].cells[1] = env.now0.year
                  /\ dest[p][i].cells[3] = env.now0.month

C4_Witness ==
    \E p \in active :
        /\ pc[p] = "done"
        /\ Len(dest[p]) = 2
        /\ Len(Updates(log[p])) = 2
        /\ dest[p][2].cells[1] = env.now0.year


-----------------------------------------------------------------------------
(* C5 *)

SheetCalls(l) == {i \in 1..Len(l) : l[i].req.op # "Exchange"}

\* getClient has read token.json: the run is past tokenFromFile and did not
\* end at one of the two operations before it.
GetClientRead(p) ==
    /\ pc[p] \notin {"readFile", "configFromJSON", "tokenFromFile"}
    /\ ~(pc[p] = "aborted" /\ nops[p] <= 2)

\* C5: the web authorization flow runs exactly when token.json cannot be
\* opened or decoded; a readable token file is left as it is; a token
\* obtained from the web is in token.json before the client is built and
\* before any spreadsheet call; a run that fails at the prompt or at the
\* exchange leaves token.json as it was.
C5_TokenPersistence ==
    \A p \in active :
        /\ GetClientRead(p) =>
              (prompted[p] <=> env.tokenFile0 \in {"missing", "corrupt"})
        /\ ~prompted[p] => tokenFile[p] = env.tokenFile0
        /\ (prompted[p] /\ client[p] # "none") => tokenFile[p] = "web"
        /\ (prompted[p] /\ SheetCalls(log[p]) # {}) => tokenFile[p] = "web"
        /\ (pc[p] = "aborted" /\ client[p] = "none") => tokenFile[p] = env.tokenFile0

-----------------------------------------------------------------------------
(* C6 *)

\* C6: every rename follows the successful copy it renames: it names the
\* sheet id the copy returned, changes the title field only, and sends the
\* returned title without one trailing suffix, or the returned title itself
\* when it does not end with the suffix.
C6_RenameRequest ==
    \A p \in active :
        \A k \in Calls(log[p], "UpdateSheetProperties") :
            /\ k > 1
            /\ log[p][k - 1].req.op = "CopyTo"
            /\ log[p][k - 1].ok
            /\ LET request == log[p][k].req
                   copy == log[p][k - 1].resp
               IN  /\ request.ss = DestId
                   /\ request.sheet = copy.SheetId
                   /\ request.fields = "title"
                   /\ IF EndsWithSuffix(copy.Title)
                      THEN request.title \o <<"no", "ko", "pi", "-">> = copy.Title
                      ELSE request.title = copy.Title

\* the copy of a sheet whose own title ends with the suffix: one is removed
C6_Witness ==
    \E p \in active :
        \E k \in Calls(log[p], "UpdateSheetProperties") :
            /\ log[p][k].ok
            /\ log[p][k - 1].resp.Title = <<"A">> \o Suffix \o Suffix
            /\ log[p][k].req.title = <<"A">> \o Suffix

-----------------------------------------------------------------------------
(* C7 *)

\* What cell A2 of a destination sheet holds before any write
A2Before(sheet) == IF sheet.id = BlankSheet.id THEN BlankSheet.cells[2] ELSE TemplateCells[2]

\* C7: every value write covers <title>!A1:A3 of a sheet the destination was
\* fetched with, in three rows [year], [], [month]; A2 of every sheet stays
\* what it was; and all writes of a run carry the one year/month pair read
\* before the first write, the month in 1..12.
C7_ValueWrites ==
    \A p \in active :
        /\ \A k \in Calls(log[p], "Update") :
              LET request == log[p][k].req IN
              /\ \E i \in DOMAIN destinationSpreadsheet[p] :
                    request.range = destinationSpreadsheet[p][i].Title \o <<"!A1:A3">>
              /\ request.values = <<<<env.now0.year>>, <<>>, <<env.now0.month>>>>
              /\ request.values[3][1] \in 1..12
        /\ \A i \in DOMAIN dest[p] : dest[p][i].cells[2] = A2Before(dest[p][i])

\* two writes, the month having turned between them
C7_Witness ==
    \E p \in active :
        /\ env.tick
        /\ pc[p] = "done"
        /\ Len(Updates(log[p])) = 2
        /\ Clock(p) # env.now0
        /\ \A i \in DOMAIN dest[p] : dest[p][i].cells = <<env.now0.year, "t2", env.now0.month>>

-----------------------------------------------------------------------------
(* C8 *)

\* C8: once created, the destination always has a sheet, in every state of
\* every run; the delete of the blank sheet is issued only for a source of at
\* least one sheet whose sheets have all been copied.
C8_DestinationNeverEmpty ==
    \A p \in active :
        /\ OkBefore(log[p], "Create", Len(log[p]) + 1) # {} => Len(dest[p]) >= 1
        /\ \A k \in Calls(log[p], "DeleteSheet") :
              /\ Len(env.src) >= 1
              /\ Cardinality(OkBefore(log[p], "CopyTo", k)) = Len(env.src)

\* the blank sheet deleted, the copies there
C8_Witness ==
    \E p \in active :
        \E k \in Calls(log[p], "DeleteSheet") :
            /\ log[p][k].ok
            /\ Len(dest[p]) >= 1
            /\ pc[p] = "getDestination"

-----------------------------------------------------------------------------
(* C9 *)

\* The service named every copy <source title> + suffix.
CopiesNamedAfterSource(l) ==
    \A k \in Calls(l, "CopyTo") :
        l[k].ok => l[k].resp.Title = SrcTitleOf(l[k].req.sheet) \o Suffix

-----------------------------------------------------------------------------
(* C10 *)

====
